---- MODULE Spec2Model ----
(***************************************************************************)
(* Neuro-evolution engine of snake_evo.py: Agent (recurrent network,       *)
(* predict / play / mutate) and Population (play / generation / ensemble). *)
(*                                                                         *)
(* Python objects live in a small object memory: `agents` maps an Agent    *)
(* object to the arrays its attributes refer to, `arrays` maps an array    *)
(* object to its contents.  A numpy array (or list of arrays) is one       *)
(* integer; the network has one hidden unit.  The Game Adapter is external *)
(* code: what step(), score() and get_values() return is chosen freely.    *)
(***************************************************************************)
EXTENDS Integers, Sequences, FiniteSets, TLC

VARIABLES
    adapter,        \* which SnakeGame the import binds: "any" or "stub"
    pop,            \* Population.pop: sequence of Agent objects
    scores,         \* Population.scores
    best,           \* the Agent returned by the last generation (None before)
    agents,         \* object memory: Agent object -> its attributes
    arrays,         \* object memory: array object -> its contents
    pc,             \* "returned" | "raised" (between calls), "enter", "loop"
    op,             \* the public operation called last
    i, trial, n_trials, walk_penalty,       \* frame of Population.play
    threshold, alive, score, counter, total_steps, calls,  \* frame of an episode
    num_elites, new_gen     \* generation: its argument and the parents drawn

vars == << adapter, pop, scores, best, agents, arrays, pc, op,
           i, trial, n_trials, walk_penalty,
           threshold, alive, score, counter, total_steps, calls,
           num_elites, new_gen >>

---------------------------------------------------------------------------
(* Bounds of the model *)
NPop == 2               \* n_pop
MaxW == 1               \* weights and biases range over 0..MaxW
MaxGameScore == 3       \* game.score() returns 0 or MaxGameScore
MaxThreshold == 2       \* threshold ranges over 1..MaxThreshold
MaxTrials == 2          \* n_trials ranges over 1..MaxTrials
MaxAccum == 1           \* Population.play is called only while scores <= MaxAccum

(* Program constants *)
BlocksWidth == 15
BlocksHeight == 10
TrialPenalty == 2
StubDeathCall == 5      \* the stub adapter's step() reports death on this call
DefaultThreshold == 100 \* threshold = 100 in the signatures of play and ensemble

None == 0
Adapters == {"any", "stub"}
\* the inputs of a call.  The stub adapter ends every episode by its
\* StubDeathCall-th step, so the default threshold and a walk penalty are
\* explored with it; the free adapter runs with walk_penalty = 0 (line 244).
Thresholds(ad) == 1..MaxThreshold \cup (IF ad = "stub" THEN {DefaultThreshold} ELSE {})
WalkPenalties(ad) == IF ad = "stub" THEN {0, 1} ELSE {0}
SensorValues == {0, (BlocksWidth + BlocksHeight) \div 2}
GameScores == {0, MaxGameScore}

---------------------------------------------------------------------------
(* Sequences *)
Range(s) == {s[k] : k \in 1..Len(s)}

RECURSIVE Sum(_)
Sum(s) == IF s = << >> THEN 0 ELSE Head(s) + Sum(Tail(s))

\* the element of a one-element set.  The({F(x) : x \in {e}}) is F(e) with e
\* evaluated once.
The(S) == CHOOSE x \in S : TRUE

RECURSIVE DedupAcc(_, _)
DedupAcc(s, acc) ==
    IF s = << >> THEN acc
    ELSE The({DedupAcc(t, a) :
                t \in {Tail(s)},
                a \in {IF Head(s) \in Range(acc) THEN acc ELSE Append(acc, Head(s))}})

Dedup(s) == DedupAcc(s, << >>)

IndexOf(s, x) == CHOOSE k \in 1..Len(s) : s[k] = x

Fields == << "hidden_layers", "biases", "recursive" >>

\* the arrays referred to by the agents of as, agent by agent, field by field
ArrayRefs(ag, as) ==
    [k \in 1..(3 * Len(as)) |-> ag[as[((k - 1) \div 3) + 1]][Fields[((k - 1) % 3) + 1]]]

---------------------------------------------------------------------------
(* Object memory.  A store is a record of the variables that hold          *)
(* references, with the two memories.                                      *)

Store == [pop |-> pop, best |-> best, agents |-> agents, arrays |-> arrays]

\* the agents the variables of S hold
Roots(S) == S.pop \o (IF S.best = None THEN << >> ELSE << S.best >>)

\* S with the agents aOrd and the arrays rOrd alone, numbered in that order
Renumbered(S, aOrd, rOrd) ==
    [pop |-> [k \in 1..Len(S.pop) |-> IndexOf(aOrd, S.pop[k])],
     best |-> IF S.best = None THEN None ELSE IndexOf(aOrd, S.best),
     agents |-> [a \in 1..Len(aOrd) |->
                    [f \in Range(Fields) |-> IndexOf(rOrd, S.agents[aOrd[a]][f])]],
     arrays |-> [r \in 1..Len(rOrd) |-> S.arrays[rOrd[r]]]]

\* Garbage collection: objects no variable reaches are dropped and the rest
\* renumbered in the order the variables reach them.
Collect(S) ==
    The({The({Renumbered(S, aOrd, rOrd) : rOrd \in {Dedup(ArrayRefs(S.agents, aOrd))}}) :
         aOrd \in {Dedup(Roots(S))}})

Install(S) ==
    /\ pop' = S.pop
    /\ best' = S.best
    /\ agents' = S.agents
    /\ arrays' = S.arrays

\* the memory S, collected, becomes the program's
InstallCollected(S) == \E T \in {Collect(S)} : Install(T)

\* copy.copy in place of copy.deepcopy: new Agent objects on the old arrays
ShallowCopy(S, as) ==
    [store |-> [S EXCEPT !.agents = @ \o [k \in 1..Len(as) |-> S.agents[as[k]]]],
     refs |-> [k \in 1..Len(as) |-> Len(S.agents) + k]]

\* copy.deepcopy of a list of Agents: one new object per distinct object
\* reached (the memo keeps sharing inside the copied structure).
DeepCopy(S, as) ==
    LET aOrd == Dedup(as)
        rOrd == Dedup(ArrayRefs(S.agents, aOrd))
        na == Len(S.agents)
        nr == Len(S.arrays)
    IN  [store |-> [S EXCEPT
            !.arrays = @ \o [k \in 1..Len(rOrd) |-> S.arrays[rOrd[k]]],
            !.agents = @ \o [k \in 1..Len(aOrd) |->
                [f \in Range(Fields) |-> nr + IndexOf(rOrd, S.agents[aOrd[k]][f])]]],
         refs |-> [k \in 1..Len(as) |-> na + IndexOf(aOrd, as[k])]]

\* the contents of an Agent: what its attributes hold
Value(S, a) == [f \in Range(Fields) |-> S.arrays[S.agents[a][f]]]

---------------------------------------------------------------------------
(* Agent *)

ScaleFactor == (BlocksWidth + BlocksHeight) \div 2

\* np.arctan: odd and bounded; here saturating at +-1
Activation(x) == IF x > 1 THEN 1 ELSE IF x < -1 THEN 0 - 1 ELSE x

\* the forward pass of predict on the contents h, b, rec of the three arrays
Forward(h, b, rec, in_coords) ==
    LET x == in_coords \div ScaleFactor
        work == Activation(((x + rec) * h) + b)
    IN  [recursive |-> work, out |-> Activation((work * h) + b)]

\* a reset_recursive that does nothing
KeepRecursive(S, a) == S

\* Agent.reset_recursive: self.recursive *= 0, in place
ResetRecursive(S, a) ==
    [S EXCEPT !.arrays[S.agents[a].recursive] = @ * 0]

RECURSIVE ResetAll(_, _)
ResetAll(S, as) ==
    IF as = << >> THEN S ELSE ResetAll(ResetRecursive(S, Head(as)), Tail(as))

\* self.recursive = work: the attribute is rebound to a new array
Rebind(S, a, work) ==
    [S EXCEPT !.arrays = Append(@, work),
              !.agents[a].recursive = Len(S.arrays) + 1]

\* Agent.predict; [store, out]
Predict(S, a, in_coords) ==
    LET v == Value(S, a)
        f == Forward(v.hidden_layers, v.biases, v.recursive, in_coords)
    IN  [store |-> Rebind(S, a, f.recursive), out |-> f.out]

\* mutate_array: array + m*p, m the noise and p the 0/1 mask; a new array
MutateArray(array, m, p) == array + (m * p)

\* the random draws of one Agent.mutate: noise and mask for each parameter
\* array (under a closed mask the noise has no effect: one value stands for it)
MutationDraws ==
    {d \in [mh : {0 - 1, 1}, ph : {0, 1}, mb : {0 - 1, 1}, pb : {0, 1}] :
        /\ d.ph = 0 => d.mh = 1
        /\ d.pb = 0 => d.mb = 1}

\* the draws that keep the parameters of the copy of a within 0..MaxW
BoundedDraws(S, a) ==
    {d \in MutationDraws :
        /\ MutateArray(Value(S, a).hidden_layers, d.mh, d.ph) \in 0..MaxW
        /\ MutateArray(Value(S, a).biases, d.mb, d.pb) \in 0..MaxW}

\* Agent.mutate: deep copy, reset, then hidden_layers and biases rebound to
\* new mutated arrays.  [store, ref]: the memory afterwards and the new Agent.
Mutate(S, a, d) ==
    LET c == DeepCopy(S, << a >>)
        out == c.refs[1]
        S1 == ResetRecursive(c.store, out)
        nr == Len(S1.arrays)
        h == MutateArray(S1.arrays[S1.agents[out].hidden_layers], d.mh, d.ph)
        b == MutateArray(S1.arrays[S1.agents[out].biases], d.mb, d.pb)
    IN  [store |-> [S1 EXCEPT !.arrays = @ \o << h, b >>,
                              !.agents[out].hidden_layers = nr + 1,
                              !.agents[out].biases = nr + 2],
         ref |-> out]

---------------------------------------------------------------------------
(* numpy and random *)

\* np.argsort: the orders that sort s ascending (ties in any order)
ArgSorts(s) ==
    {p \in [1..Len(s) -> 1..Len(s)] :
        /\ \A a, b \in 1..Len(s) : a # b => p[a] # p[b]
        /\ \A a, b \in 1..Len(s) : a < b => s[p[a]] <= s[p[b]]}

\* s[:k] in place of s[-k:]
FirstSlice(s, k) == SubSeq(s, 1, IF k < Len(s) THEN k ELSE Len(s))

\* Python's s[-k:]
LastSlice(s, k) ==
    IF k = 0 \/ k >= Len(s) THEN s ELSE SubSeq(s, Len(s) - k + 1, Len(s))

\* np.argmax: the first index of the maximum
ArgMax(s) ==
    CHOOSE j \in 1..Len(s) :
        /\ \A l \in 1..Len(s) : s[l] <= s[j]
        /\ \A l \in 1..(j - 1) : s[l] < s[j]

\* play without line 161
NoClamp(s) == s

\* np.maximum(s, 0)
Clamp(s) == [k \in 1..Len(s) |-> IF s[k] > 0 THEN s[k] ELSE 0]

\* itertools.accumulate(weights)
CumWeights(w) == [k \in 1..Len(w) |-> Sum(SubSeq(w, 1, k))]

\* random.choices raises ValueError for these weights
ChoicesRaises(population, w) ==
    Len(w) # Len(population) \/ Sum(w) <= 0

\* a draw that ignores the weights
UniformChoice(w, x) == (x % Len(w)) + 1

\* one draw of random.choices: bisect(cum_weights, x, 0, n - 1) for the point
\* x = random() * total, 0 <= x < total
Choice(w, x) ==
    LET cum == CumWeights(w)
    IN  Cardinality({k \in 1..(Len(w) - 1) : cum[k] <= x}) + 1

---------------------------------------------------------------------------
(* Game Adapter: what the step() call number c and the score() after it    *)
(* can return                                                              *)
StepResults(ad, c) ==
    IF ad = "stub"
    THEN {[alive |-> c < StubDeathCall, score |-> 0]}
    ELSE [alive : BOOLEAN, score : GameScores]

---------------------------------------------------------------------------
(* The episode loop, on the values of its local variables.  An episode    *)
(* state e is [alive, score, counter, total_steps, calls], calls counting  *)
(* the step() calls made on the game.                                      *)

\* an episode entered without counting the initialising step() call
BeginUncounted(r) ==
    [alive |-> r.alive, score |-> r.score, counter |-> 0, total_steps |-> 0,
     calls |-> 0]

\* lines 96-99 and 204-206: the initialising step
Begin(r) ==
    [alive |-> r.alive, score |-> r.score, counter |-> 0, total_steps |-> 0,
     calls |-> 1]

\* a loop that tests alive only
RunningWhileAlive(e, thr) == e.alive

\* the loop condition, lines 100 and 207
Running(e, thr) == e.counter < thr /\ e.alive

\* lines 101, 109-115 and 208, 217-223: counter += 1, the step, and the
\* counter reset on a strict score increase
LoopStep(e, r) ==
    [e EXCEPT !.alive = r.alive,
              !.calls = @ + 1,
              !.score = IF r.score > e.score THEN r.score ELSE @,
              !.counter = IF r.score > e.score THEN 0 ELSE @ + 1]

\* line 102
CountTurn(e) == [e EXCEPT !.total_steps = @ + 1]


\* line 160: what one trial adds to the member's score
TrialScore(sc, tot, wp) == sc - TrialPenalty - (tot * wp)

---------------------------------------------------------------------------
Idle == pc \in {"returned", "raised"}

\* no episode is running: the locals of Agent.play and ensemble are gone
NoEpisode ==
    /\ threshold' = 0
    /\ alive' = FALSE
    /\ score' = 0
    /\ counter' = 0
    /\ total_steps' = 0
    /\ calls' = 0

\* Population.play is not running
NoPlayFrame ==
    /\ i' = 0
    /\ trial' = 0
    /\ n_trials' = 0
    /\ walk_penalty' = 0

\* lines 36-50: the weights drawn at construction (one draw stands for them)
\* and the zero recursive state
InitialArray == << 1, 0, 0 >>

Init ==
    /\ adapter \in Adapters
    /\ pop = [k \in 1..NPop |-> k]
    /\ scores = [k \in 1..NPop |-> 0]
    /\ best = None
    /\ agents = [k \in 1..NPop |->
                    [hidden_layers |-> (3 * k) - 2, biases |-> (3 * k) - 1,
                     recursive |-> 3 * k]]
    /\ arrays = [r \in 1..(3 * NPop) |-> InitialArray[((r - 1) % 3) + 1]]
    /\ pc = "returned"
    /\ op = "init"
    /\ i = 0 /\ trial = 0 /\ n_trials = 0 /\ walk_penalty = 0
    /\ threshold = 0 /\ alive = FALSE /\ score = 0 /\ counter = 0
    /\ total_steps = 0 /\ calls = 0
    /\ num_elites = 0 /\ new_gen = << >>

---------------------------------------------------------------------------
(* Population.generation *)

\* line 170: [i.mutate(prob, strength) for i in new_gen], the parents being
\* members of old; [store, refs]
RECURSIVE MutateAll(_, _, _, _)
MutateAll(S, old, parents, ds) ==
    IF parents = << >> THEN [store |-> S, refs |-> << >>]
    ELSE LET m == Mutate(S, old[Head(parents)], Head(ds))
             rest == MutateAll(m.store, old, Tail(parents), Tail(ds))
         IN  [store |-> rest.store, refs |-> << m.ref >> \o rest.refs]

\* lines 164-171 for one argsort order, the parents drawn at line 169 and
\* the draws of their mutations: the memory with self.pop and best assigned
Generated(k, order, parents, ds) ==
    LET c == DeepCopy(Store, pop)
        old_pop == c.refs
        elite_index == LastSlice(order, k)
        elites == [e \in 1..Len(elite_index) |-> old_pop[elite_index[e]]]
        S1 == ResetAll(c.store, elites)
        m == MutateAll(S1, old_pop, parents, ds)
        b == DeepCopy(m.store, << old_pop[ArgMax(scores)] >>)
    IN  Collect([b.store EXCEPT !.pop = m.refs \o elites, !.best = b.refs[1]])

\* line 169: the lists random.choices(old_pop, weights=self.scores, k=n) can
\* return, as indices into old_pop
Choices(w, n) ==
    [1..n -> {Choice(w, x) : x \in 0..(Sum(w) - 1)}]

\* lines 163-173
Generation(k) ==
    /\ Idle
    /\ k = 0 => best = None      \* num_elites = 0 is explored in the first generation
    /\ op' = "generation"
    /\ num_elites' = k
    /\ IF ChoicesRaises(pop, scores)
       THEN \* ValueError out of random.choices, before self.pop is assigned
            /\ pc' = "raised"
            /\ new_gen' = << >>
            /\ UNCHANGED << pop, best, agents, arrays, scores >>
       ELSE \E order \in ArgSorts(scores), parents \in Choices(scores, NPop - k) :
            \E ds \in {f \in [1..(NPop - k) -> MutationDraws] :
                        \A j \in 1..(NPop - k) :
                            f[j] \in BoundedDraws(Store, pop[parents[j]])} :
            /\ Install(Generated(k, order, parents, ds))
            /\ new_gen' = parents
            /\ scores' = [j \in 1..Len(scores) |-> scores[j] * 0]
            /\ pc' = "returned"
    /\ UNCHANGED << adapter, i, trial, n_trials, walk_penalty,
                    threshold, alive, score, counter, total_steps, calls >>

---------------------------------------------------------------------------
(* Population.ensemble *)

\* the members that zip(self.pop, self.scores) pairs with a score
Zipped(S) ==
    SubSeq(S.pop, 1, IF Len(S.pop) < Len(scores) THEN Len(S.pop) ELSE Len(scores))

\* line 211: ag.predict(val) for the members of as in turn; the memory afterwards
RECURSIVE PredictAll(_, _, _)
PredictAll(S, as, val) ==
    IF as = << >> THEN S
    ELSE The({PredictAll(T, Tail(as), val) : T \in {Predict(S, Head(as), val).store}})

---------------------------------------------------------------------------
(* The operations turn by turn: one step per statement group of the       *)
(* episode loop, the locals of the running call in the variables           *)

\* the locals of the running episode
Episode ==
    [alive |-> alive, score |-> score, counter |-> counter,
     total_steps |-> total_steps, calls |-> calls]

SetEpisode(e) ==
    /\ alive' = e.alive
    /\ score' = e.score
    /\ counter' = e.counter
    /\ total_steps' = e.total_steps
    /\ calls' = e.calls

\* the Agent whose play method is running
Acting == IF op = "play" THEN pop[i] ELSE best

\* the call of Population.play (line 151) up to the first ag.play
PlayCall(ntr, thr, wp) ==
    /\ Idle
    /\ \A k \in 1..Len(scores) : scores[k] \in 0..MaxAccum
    /\ op' = "play"
    /\ pc' = "enter"
    /\ i' = 1
    /\ trial' = 1
    /\ n_trials' = ntr
    /\ walk_penalty' = wp
    /\ threshold' = thr
    /\ UNCHANGED << alive, score, counter, total_steps, calls >>
    /\ num_elites' = 0
    /\ new_gen' = << >>
    /\ UNCHANGED << adapter, pop, scores, best, agents, arrays >>

\* the call of Agent.play on the agent generation returned (lines 259-268)
AgentPlayCall(thr) ==
    /\ Idle
    /\ best # None
    /\ op' = "agent"
    /\ pc' = "enter"
    /\ threshold' = thr
    /\ UNCHANGED << i, trial, n_trials, walk_penalty, alive, score, counter,
                    total_steps, calls >>
    /\ num_elites' = 0
    /\ new_gen' = << >>
    /\ UNCHANGED << adapter, pop, scores, best, agents, arrays >>

\* lines 83-99: Agent.play up to the loop
Enter ==
    /\ pc = "enter"
    /\ Install(ResetRecursive(Store, Acting))
    /\ \E r \in StepResults(adapter, 1) : SetEpisode(Begin(r))
    /\ pc' = "loop"
    /\ UNCHANGED << adapter, scores, op, i, trial, n_trials, walk_penalty, threshold,
                    num_elites, new_gen >>

\* lines 100-115: one turn of Agent.play
Turn ==
    /\ pc = "loop"
    /\ op \in {"play", "agent"}
    /\ Running(Episode, threshold)
    /\ \E val \in SensorValues :
          \E S \in {Predict(Store, Acting, val).store} : InstallCollected(S)
    /\ \E r \in StepResults(adapter, calls + 1) : SetEpisode(CountTurn(LoopStep(Episode, r)))
    /\ UNCHANGED << adapter, scores, pc, op, i, trial, n_trials, walk_penalty,
                    threshold, num_elites, new_gen >>

\* line 121 into lines 160-161 and the two for loops of Population.play
PlayReturn ==
    /\ pc = "loop"
    /\ op = "play"
    /\ ~Running(Episode, threshold)
    /\ IF i > Len(scores)
       THEN \* IndexError at self.scores[i]
            /\ pc' = "raised"
            /\ NoPlayFrame
            /\ NoEpisode
            /\ UNCHANGED scores
       ELSE IF trial < n_trials
       THEN /\ scores' = [scores EXCEPT ![i] = @ + TrialScore(score, total_steps, walk_penalty)]
            /\ trial' = trial + 1
            /\ pc' = "enter"
            /\ UNCHANGED << i, n_trials, walk_penalty, threshold, alive, score,
                            counter, total_steps, calls >>
       ELSE IF i < Len(pop)
       THEN /\ scores' = [scores EXCEPT ![i] = @ + TrialScore(score, total_steps, walk_penalty)]
            /\ i' = i + 1
            /\ trial' = 1
            /\ pc' = "enter"
            /\ UNCHANGED << n_trials, walk_penalty, threshold, alive, score,
                            counter, total_steps, calls >>
       ELSE /\ scores' = Clamp([scores EXCEPT
                                  ![i] = @ + TrialScore(score, total_steps, walk_penalty)])
            /\ pc' = "returned"
            /\ NoPlayFrame
            /\ NoEpisode
    /\ UNCHANGED << adapter, pop, best, agents, arrays, op, num_elites, new_gen >>

\* line 121 of an Agent.play called directly
AgentReturn ==
    /\ pc = "loop"
    /\ op = "agent"
    /\ ~Running(Episode, threshold)
    /\ pc' = "returned"
    /\ NoEpisode
    /\ UNCHANGED << adapter, pop, scores, best, agents, arrays, op, i, trial, n_trials,
                    walk_penalty, num_elites, new_gen >>

\* lines 187-206: Population.ensemble up to the loop
EnsembleCall(thr) ==
    /\ Idle
    /\ op' = "ensemble"
    /\ IF Sum(scores) = 0
       THEN \* ValueError: need nonzero scores
            /\ pc' = "raised"
            /\ UNCHANGED << pop, best, agents, arrays, threshold, alive, score,
                            counter, total_steps, calls >>
       ELSE /\ pc' = "loop"
            /\ threshold' = thr
            /\ Install(ResetAll(Store, pop))
            /\ \E r \in StepResults(adapter, 1) : SetEpisode(Begin(r))
    /\ num_elites' = 0
    /\ new_gen' = << >>
    /\ UNCHANGED << adapter, scores, i, trial, n_trials, walk_penalty >>

\* lines 207-223: one turn of the ensemble
EnsembleTurn ==
    /\ pc = "loop"
    /\ op = "ensemble"
    /\ Running(Episode, threshold)
    /\ \E val \in SensorValues :
          \E S \in {PredictAll(Store, Zipped(Store), val)} : InstallCollected(S)
    /\ \E r \in StepResults(adapter, calls + 1) : SetEpisode(LoopStep(Episode, r))
    /\ UNCHANGED << adapter, scores, pc, op, i, trial, n_trials, walk_penalty,
                    threshold, num_elites, new_gen >>

\* line 229
EnsembleReturn ==
    /\ pc = "loop"
    /\ op = "ensemble"
    /\ ~Running(Episode, threshold)
    /\ pc' = "returned"
    /\ NoEpisode
    /\ UNCHANGED << adapter, pop, scores, best, agents, arrays, op, i, trial, n_trials,
                    walk_penalty, num_elites, new_gen >>

---------------------------------------------------------------------------
Next ==
    \/ \E ntr \in 1..MaxTrials, thr \in Thresholds(adapter), wp \in WalkPenalties(adapter) :
            PlayCall(ntr, thr, wp)
    \/ Enter
    \/ Turn
    \/ PlayReturn
    \/ \E k \in 0..NPop : Generation(k)
    \/ \E thr \in Thresholds(adapter) : AgentPlayCall(thr)
    \/ AgentReturn
    \/ \E thr \in Thresholds(adapter) : EnsembleCall(thr)
    \/ EnsembleTurn
    \/ EnsembleReturn

Spec == Init /\ [][Next]_vars

\* Episodes alone: play and ensemble, no generation.  The program is
\* single-threaded and a call that has started runs on, so the steps inside a
\* call are weakly fair.
NextEpisodes ==
    \/ \E ntr \in 1..MaxTrials, thr \in Thresholds(adapter), wp \in WalkPenalties(adapter) :
            PlayCall(ntr, thr, wp)
    \/ Enter
    \/ Turn
    \/ PlayReturn
    \/ \E thr \in Thresholds(adapter) : EnsembleCall(thr)
    \/ EnsembleTurn
    \/ EnsembleReturn

InCall == Enter \/ Turn \/ PlayReturn \/ EnsembleTurn \/ EnsembleReturn

FairSpec == Init /\ [][NextEpisodes]_vars /\ WF_vars(InCall)

---------------------------------------------------------------------------
(* Properties *)

\* the contents of the members, by position, and of the agent in best
PopValues == [j \in 1..Len(pop) |-> Value(Store, pop[j])]
BestValue == IF best = None THEN None ELSE Value(Store, best)

\* a step that is one turn of a running episode
IsTurn == pc = "loop" /\ pc' = "loop" /\ calls' = calls + 1

\* a step that is a call of generation that returned
IsGeneration == Idle /\ op' = "generation" /\ pc' = "returned"

\* a step that is a call of ensemble
IsEnsembleCall == Idle /\ op' = "ensemble"

\* C1: in every episode of Agent.play and of ensemble the
\* turns-without-score counter never exceeds the threshold, a turn is taken
\* only while the last step() returned alive and the counter is below the
\* threshold, and every episode comes to its end.
EpisodeTermination ==
    /\ [](pc = "loop" => counter <= threshold)
    /\ [][IsTurn => alive /\ counter < threshold]_vars
    /\ (pc = "loop" ~> pc # "loop")

\* an episode that the threshold ended, after a score increase had reset the counter
EpisodeTerminationWitness ==
    /\ pc = "loop"
    /\ alive
    /\ counter = threshold
    /\ threshold = MaxThreshold
    /\ total_steps > threshold

\* C2: generation(num_elites = k) leaves in the last k positions of the new
\* population k members of the old one that held its k highest scores, each
\* with its weights and biases unchanged and its recursive state zero.
ElitismPreservation ==
    [][IsGeneration =>
        \E e \in [1..num_elites' -> 1..Len(pop)] :
            /\ \A a, b \in 1..num_elites' : a # b => e[a] # e[b]
            /\ \A a \in 1..num_elites', m \in 1..Len(pop) :
                  (\A b \in 1..num_elites' : e[b] # m) => scores[m] <= scores[e[a]]
            /\ \A a \in 1..num_elites' :
                  LET new == PopValues'[Len(pop') - num_elites' + a]
                      old == PopValues[e[a]]
                  IN  /\ new.hidden_layers = old.hidden_layers
                      /\ new.biases = old.biases
                      /\ new.recursive = 0]_vars

\* a generation with one elite whose parameters differ from the offspring's
ElitismPreservationWitness ==
    /\ op = "generation"
    /\ pc = "returned"
    /\ num_elites = 1
    /\ Len(pop) = NPop
    /\ PopValues[NPop].hidden_layers # PopValues[1].hidden_layers

\* C3: after construction, after a Population.play that returned and after
\* a generation that returned, every score is >= 0.
ScoreNonNegativity ==
    (pc = "returned" /\ op \in {"init", "play", "generation"}) =>
        \A k \in 1..Len(scores) : scores[k] >= 0

\* a play has returned with one score clamped to 0 and another positive
ScoreNonNegativityWitness ==
    /\ pc = "returned"
    /\ op = "play"
    /\ \E k \in 1..Len(scores) : scores[k] = 0
    /\ \E k \in 1..Len(scores) : scores[k] > 0

\* C4: a call of ensemble goes on to play an episode exactly when some score
\* is > 0; otherwise it raises, with no game step and no predict.
EnsemblePrecondition ==
    [][IsEnsembleCall =>
        IF \E k \in 1..Len(scores) : scores[k] > 0
        THEN pc' = "loop"
        ELSE pc' = "raised" /\ calls' = calls /\ arrays' = arrays]_vars

\* C5: the population has n_pop members and as many scores as members.
PopulationSizeFixed ==
    Len(pop) = NPop /\ Len(scores) = Len(pop)

\* C6: generation raises no error.
GenerationNeverRaises ==
    ~(op = "generation" /\ pc = "raised")

\* C7 as amended: with the stub adapter (score 0, death on the
\* StubDeathCall-th step() call), n_trials = 1 and a threshold that does not
\* cut the episode short, Agent.play returns StubDeathCall - 1 turns, the raw
\* trial score is 0 - 2 - (StubDeathCall - 1) * walk_penalty, and the score
\* stored when play returns is 0.
StubTrialScore ==
    /\ (/\ adapter = "stub" /\ op = "play" /\ pc = "loop" /\ n_trials = 1
        /\ threshold >= StubDeathCall - 1
        /\ ~Running(Episode, threshold))
       => /\ total_steps = StubDeathCall - 1
          /\ TrialScore(score, total_steps, walk_penalty)
                = 0 - 2 - ((StubDeathCall - 1) * walk_penalty)
    /\ (adapter = "stub" /\ op = "play" /\ pc = "returned")
       => \A k \in 1..Len(scores) : scores[k] = 0

\* the stub's episode has ended under the default threshold and a walk penalty
StubTrialScoreWitness ==
    /\ adapter = "stub" /\ op = "play" /\ pc = "loop" /\ n_trials = 1
    /\ threshold = DefaultThreshold
    /\ walk_penalty = 1
    /\ ~alive
    /\ i = NPop

\* C7 as stated: the episode has StubDeathCall turns and the raw trial score
\* is 0 - 2 - StubDeathCall * walk_penalty.
StubTrialScoreAsStated ==
    (/\ adapter = "stub" /\ op = "play" /\ pc = "loop" /\ n_trials = 1
     /\ threshold >= StubDeathCall - 1
     /\ ~Running(Episode, threshold))
    => /\ total_steps = StubDeathCall
       /\ TrialScore(score, total_steps, walk_penalty)
             = 0 - 2 - (StubDeathCall * walk_penalty)

\* Agent.mutate on the member a leaves every object that existed untouched
\* and returns a new Agent on new arrays
MutateIsPure(a) ==
    \A d \in MutationDraws :
        LET m == Mutate(Store, a, d)
        IN  /\ SubSeq(m.store.arrays, 1, Len(arrays)) = arrays
            /\ SubSeq(m.store.agents, 1, Len(agents)) = agents
            /\ m.ref > Len(agents)
            /\ \A f \in Range(Fields) : m.store.agents[m.ref][f] > Len(arrays)

\* the agents that self.pop and best hold
Held == pop \o (IF best = None THEN << >> ELSE << best >>)

\* C8: the members and the agent generation returned are pairwise distinct
\* objects that share no array; mutate changes nothing of its parent; a
\* predict or reset_recursive on one agent changes the contents of no other.
NoSharedState ==
    /\ [](/\ Cardinality(Range(Held)) = Len(Held)
          /\ Cardinality(Range(ArrayRefs(agents, Held))) = 3 * Len(Held)
          /\ Idle => \A a \in 1..Len(pop) : MutateIsPure(pop[a]))
    /\ [][(pc \in {"enter", "loop"} /\ pc' = "loop" /\ op \in {"play", "agent"}) =>
            /\ \A j \in 1..Len(pop) : pop[j] # Acting => PopValues'[j] = PopValues[j]
            /\ best # Acting => BestValue' = BestValue]_vars

\* generation has drawn the same parent for two offspring
NoSharedStateWitness ==
    /\ op = "generation"
    /\ pc = "returned"
    /\ Len(new_gen) = 2
    /\ new_gen[1] = new_gen[2]

\* C9: generation makes n_pop - num_elites offspring, each the mutation of a
\* member whose score before the call is > 0.
ParentsHavePositiveScore ==
    [][IsGeneration =>
        /\ Len(new_gen') = NPop - num_elites'
        /\ \A j \in 1..Len(new_gen') :
              /\ new_gen'[j] \in 1..Len(pop)
              /\ scores[new_gen'[j]] > 0
              /\ \E d \in MutationDraws :
                    /\ PopValues'[j].hidden_layers =
                          MutateArray(PopValues[new_gen'[j]].hidden_layers, d.mh, d.ph)
                    /\ PopValues'[j].biases =
                          MutateArray(PopValues[new_gen'[j]].biases, d.mb, d.pb)
                    /\ PopValues'[j].recursive = 0]_vars

\* a generation has made an offspring that differs from the elite beside it
ParentsHavePositiveScoreWitness ==
    /\ op = "generation"
    /\ pc = "returned"
    /\ num_elites = NPop - 1
    /\ Len(new_gen) = 1
    /\ PopValues[1].biases # PopValues[NPop].biases

\* C10: when the loop of an episode is entered (no predict made yet) the
\* recursive state of the acting agent, in ensemble of every member, is
\* zero; during an episode memory changes only in a turn, by predict.
EpisodeIsolation ==
    /\ []((pc = "loop" /\ calls = 1) =>
            IF op = "ensemble"
            THEN \A j \in 1..Len(pop) : PopValues[j].recursive = 0
            ELSE Value(Store, Acting).recursive = 0)
    /\ [][(pc = "loop" /\ (arrays' # arrays \/ agents' # agents)) => IsTurn]_vars

\* the second trial of a member is about to make its first predict
EpisodeIsolationWitness ==
    /\ pc = "loop"
    /\ calls = 1
    /\ op = "play"
    /\ trial = 2
    /\ alive

====
